---------------------------- MODULE Spec2Model ----------------------------
(***************************************************************************)
(* Portfolio_Beta_Weighting.py as a state machine.                         *)
(*                                                                         *)
(* The program is one linear pipeline, portfolio_beta_weighting: fetch the *)
(* latest prices, value the positions, fetch the 2020-2023 history, take   *)
(* log returns, regress every ticker on SPY, scale the weights by          *)
(* target_beta / current_beta, normalise, and round the share counts.      *)
(*                                                                         *)
(* Numbers.  numpy floats are modelled as exact rationals extended with    *)
(* +inf, -inf and NaN, with the IEEE rules numpy applies to them (x/0 is   *)
(* +-inf, 0/0 and inf-inf and 0*inf are NaN, NaN propagates).  Rounding    *)
(* error of the 53-bit mantissa is not modelled, and neither is the sign   *)
(* of zero.  np.log is modelled on prices that are powers of two and is    *)
(* taken in units of ln 2 (so it is the exact base-2 exponent); a beta is  *)
(* a quotient of two sums of products of returns, so the unit cancels.     *)
(***************************************************************************)
EXTENDS Integers, Sequences, FiniteSets, TLC

(***************************************************************************)
(* Extended rationals                                                      *)
(***************************************************************************)
Abs(i) == IF i < 0 THEN -i ELSE i

Sgn(i) == IF i < 0 THEN -1 ELSE IF i > 0 THEN 1 ELSE 0

RECURSIVE GCD(_, _)
GCD(a, b) == IF b = 0 THEN a ELSE GCD(b, a % b)

NaN == [k |-> "nan", n |-> 0, d |-> 1]

Inf(s) == [k |-> "inf", n |-> s, d |-> 1]

\* The rational n/d (d # 0) in lowest terms with a positive denominator.
Q(n, d) ==
    LET g == GCD(Abs(n), Abs(d))
        s == IF d < 0 THEN -1 ELSE 1
    IN  [k |-> "fin", n |-> (s * n) \div g, d |-> (s * d) \div g]

F(i) == [k |-> "fin", n |-> i, d |-> 1]

IsFinite(a) == a.k = "fin"

IsNaN(a) == a.k = "nan"

FNeg(a) == IF a.k = "nan" THEN NaN ELSE [a EXCEPT !.n = -a.n]

FAdd(a, b) ==
    IF a.k = "nan" \/ b.k = "nan" THEN NaN
    ELSE IF a.k = "inf" /\ b.k = "inf" THEN (IF a.n = b.n THEN a ELSE NaN)
    ELSE IF a.k = "inf" THEN a
    ELSE IF b.k = "inf" THEN b
    ELSE Q(a.n * b.d + b.n * a.d, a.d * b.d)

FSub(a, b) == FAdd(a, FNeg(b))

FMul(a, b) ==
    IF a.k = "nan" \/ b.k = "nan" THEN NaN
    ELSE IF a.k = "inf" \/ b.k = "inf"
         THEN (IF a.n = 0 \/ b.n = 0 THEN NaN ELSE Inf(Sgn(a.n) * Sgn(b.n)))
    ELSE Q(a.n * b.n, a.d * b.d)

\* numpy's true_divide: a warning, never an exception, on a zero divisor.
FDiv(a, b) ==
    IF a.k = "nan" \/ b.k = "nan" THEN NaN
    ELSE IF a.k = "inf" THEN (IF b.k = "inf" THEN NaN
                              ELSE Inf(a.n * (IF b.n < 0 THEN -1 ELSE 1)))
    ELSE IF b.k = "inf" THEN F(0)
    ELSE IF b.n = 0 THEN (IF a.n = 0 THEN NaN ELSE Inf(Sgn(a.n)))
    ELSE Q(a.n * b.d, a.d * b.n)

FLess(a, b) == 
    /\ a.k # "nan" 
    /\ b.k # "nan"
    /\ IF a.k = "inf" THEN a.n < 0 /\ ~(b.k = "inf" /\ b.n < 0)
       ELSE IF b.k = "inf" THEN b.n > 0
       ELSE a.n * b.d < b.n * a.d

FLeq(a, b) == a.k # "nan" /\ b.k # "nan" /\ (a = b \/ FLess(a, b))

\* np.round(x, 0): to the nearest whole number, an exact half to the even
\* neighbour; inf and NaN come back unchanged.
FRound(a) ==
    IF a.k # "fin" THEN a
    ELSE LET q == a.n \div a.d
             r == a.n - q * a.d
         IN  IF 2 * r < a.d THEN F(q)
             ELSE IF 2 * r > a.d THEN F(q + 1)
             ELSE IF q % 2 = 0 THEN F(q) ELSE F(q + 1)

RECURSIVE Log2Exp(_, _)
Log2Exp(n, d) == IF n = d THEN 0
                 ELSE IF n > d THEN 1 + Log2Exp(n, 2 * d)
                 ELSE Log2Exp(2 * n, d) - 1

\* np.log, in units of ln 2, on the ratios of two prices of the price grid.
FLog(a) ==
    IF a.k = "nan" THEN NaN
    ELSE IF a.k = "inf" THEN (IF a.n > 0 THEN a ELSE NaN)
    ELSE IF a.n = 0 THEN Inf(-1)
    ELSE IF a.n < 0 THEN NaN
    ELSE F(Log2Exp(a.n, a.d))

RECURSIVE FSum(_)
FSum(s) == IF s = <<>> THEN F(0) ELSE FAdd(Head(s), FSum(Tail(s)))


(***************************************************************************)
(* Frames, rows and payloads                                               *)
(***************************************************************************)
\* The portfolio's tickers in dict order; get_historical_data appends SPY.
Tickers == <<"A", "B">>

Benchmark == "SPY"

HistoryColumns == Tickers \o <<Benchmark>>

N == Len(Tickers)

RECURSIVE IndexOf(_, _)
IndexOf(cols, name) == IF Head(cols) = name THEN 1 ELSE 1 + IndexOf(Tail(cols), name)

\* row[label] of a frame whose columns are cols.
Col(cols, row, name) == row[IndexOf(cols, name)]

\* One column of a frame, as a series.
Column(cols, table, name) == [i \in 1..Len(table) |-> Col(cols, table[i], name)]

HasNaN(row) == \E i \in 1..Len(row) : IsNaN(row[i])

\* DataFrame.dropna(): a row with any missing value goes, whole.
DropNa(table) == SelectSeq(table, LAMBDA row : ~HasNaN(row))

NoValue == [k |-> "none", n |-> 0, d |-> 1]

NoFrame == <<>>

ErrNone == "none"

ErrNoPriceColumn == "ValueError: Neither 'Adj Close' nor 'Close' columns found in the data"

ErrOutOfBounds == "IndexError: single positional indexer is out-of-bounds"

ErrEmptyInputs == "ValueError: Inputs must not be empty."

ErrIdenticalX == "ValueError: Cannot calculate a linear regression if all x values are identical"

\* The mutant of SelectPriceField: the two branches swapped.
SelectPriceFieldCloseFirst(payload) ==
    IF "Close" \in DOMAIN payload THEN "Close"
    ELSE IF "Adj Close" \in DOMAIN payload THEN "Adj Close"
    ELSE "missing"

\* if 'Adj Close' in data.columns ... elif 'Close' in data.columns ... else raise
SelectPriceField(payload) ==
    IF "Adj Close" \in DOMAIN payload THEN "Adj Close"
    ELSE IF "Close" \in DOMAIN payload THEN "Close"
    ELSE "missing"

\* get_historical_data: the chosen field with its incomplete rows dropped.
get_historical_data(payload) ==
    LET field == SelectPriceField(payload)
    IN  IF field = "missing" THEN [err |-> ErrNoPriceColumn, data |-> NoFrame]
        ELSE [err |-> ErrNone, data |-> DropNa(payload[field])]

\* Lines 35-41: the chosen field's last row, as it is (no dropna here).
latest_prices(payload) ==
    LET field == SelectPriceField(payload)
    IN  IF field = "missing" THEN [err |-> ErrNoPriceColumn, prices |-> NoFrame]
        ELSE IF payload[field] = <<>> THEN [err |-> ErrOutOfBounds, prices |-> NoFrame]
        ELSE [err |-> ErrNone, prices |-> payload[field][Len(payload[field])]]

\* np.log(data / data.shift(1)).dropna(): shift leaves the first row NaN.
calculate_returns(data) ==
    LET raw == [i \in 1..Len(data) |->
                  [c \in 1..Len(data[i]) |->
                     IF i = 1 THEN NaN ELSE FLog(FDiv(data[i][c], data[i - 1][c]))]]
    IN  DropNa(raw)

(***************************************************************************)
(* scipy.stats.linregress(x, y), as calculate_beta uses it: it raises for  *)
(* empty inputs and, when len(x) > 1, for x values that are all identical; *)
(* otherwise slope = ssxym / ssxm and r = ssxym / sqrt(ssxm * ssym), with  *)
(* r = 0 when either variance is 0.  A single observation passes both      *)
(* checks and divides 0 by 0.                                              *)
(***************************************************************************)
Mean(s) == FDiv(FSum(s), F(Len(s)))

\* np.cov(x, y, bias=1): the mean of the products of the deviations.
Cov(xs, ys) ==
    LET mx == Mean(xs)
        my == Mean(ys)
    IN  Mean([i \in 1..Len(xs) |-> FMul(FSub(xs[i], mx), FSub(ys[i], my))])

AllIdentical(xs) == \A i \in 1..Len(xs) : xs[i] = xs[1]

linregress(xs, ys) ==
    IF Len(xs) = 0 \/ Len(ys) = 0
    THEN [err |-> ErrEmptyInputs, slope |-> NoValue, rvalue2 |-> NoValue]
    ELSE IF AllIdentical(xs) /\ Len(xs) > 1
    THEN [err |-> ErrIdenticalX, slope |-> NoValue, rvalue2 |-> NoValue]
    ELSE LET ssxm  == Cov(xs, xs)
             ssxym == Cov(xs, ys)
             ssym  == Cov(ys, ys)
         IN  [err     |-> ErrNone,
              slope   |-> FDiv(ssxym, ssxm),
              rvalue2 |-> IF ssxm = F(0) \/ ssym = F(0) THEN F(0)
                          ELSE FDiv(FMul(ssxym, ssxym), FMul(ssxm, ssym))]

\* calculate_beta(asset_returns, benchmark_returns): slope and r_value**2.
calculate_beta(asset_returns, benchmark_returns) ==
    LET fit == linregress(benchmark_returns, asset_returns)
    IN  [err |-> fit.err, beta |-> fit.slope, r_sq |-> fit.rvalue2]

(***************************************************************************)
(* The weighting arithmetic of portfolio_beta_weighting                    *)
(***************************************************************************)
\* positions = {ticker: shares * current_prices[ticker]}
Positions(shares, prices) == [i \in 1..N |-> FMul(F(shares[i]), prices[i])]

\* The mutant of CurrentWeights: weights taken against the positions' own sum.
CurrentWeightsOfPositions(pos, total) == [i \in 1..N |-> FDiv(pos[i], FSum(pos))]

\* np.array(list(positions.values())) / total_portfolio_value
CurrentWeights(pos, total) == [i \in 1..N |-> FDiv(pos[i], F(total))]

\* np.dot(betas, weights)
Dot(bs, ws) == FSum([i \in 1..N |-> FMul(bs[i], ws[i])])

\* The mutant of NewWeights: the adjustment added to every weight.
NewWeightsShifted(ws, target, cbeta) == [i \in 1..N |-> FAdd(ws[i], FDiv(F(target), cbeta))]

\* new_weights = current_weights * (target_beta / current_beta)
NewWeights(ws, target, cbeta) == [i \in 1..N |-> FMul(ws[i], FDiv(F(target), cbeta))]

\* The mutant of NormalizedWeights: the scaled weights returned as they are.
UnnormalizedWeights(nw) == nw

\* normalized_weights = new_weights / new_weights.sum()
NormalizedWeights(nw) == [i \in 1..N |-> FDiv(nw[i], FSum(nw))]

\* np.round((normalized_weights * total_portfolio_value) / price, 0)
NewShares(aw, total, prices) ==
    [i \in 1..N |-> FRound(FDiv(FMul(aw[i], F(total)), prices[i]))]

\* Lines 58-79 from the weights on, for one target_beta.
AdjustedFor(ws, bs, target) == NormalizedWeights(NewWeights(ws, target, Dot(bs, ws)))


(***************************************************************************)
(* Inputs: the caller's arguments and what yf.download answers             *)
(***************************************************************************)
MaxShares == 2

MaxRows == 3

MaxQuoteRows == 2

TotalValues == {-4, 0, 2}

TargetBetas == {0, 1, 2}

Price(i) == F(i)

\* The prices of one day of the latest quotes, one per ticker.
QuoteRows == [1..N -> {Price(1), Price(2)}]

\* A price history of the benchmark with returns of both signs.
BenchmarkPath == [i \in 1..MaxRows |-> IF i % 2 = 1 THEN Price(1) ELSE Price(2)]

\* The histories of one ticker: from price 1, every day on the grid {1, 2}.
TickerPaths == {p \in [1..MaxRows -> {Price(1), Price(2)}] : p[1] = Price(1)}

\* MaxRows days of history in which the benchmark's returns vary.
RegressionTables ==
    {[i \in 1..MaxRows |-> [c \in 1..(N + 1) |-> IF c <= N THEN p[c][i] ELSE BenchmarkPath[i]]] :
        p \in [1..N -> TickerPaths]}

\* Adj Close is Close scaled by the adjustment factor of the window.
Adjust(table) == [i \in 1..Len(table) |-> [c \in 1..Len(table[i]) |-> FDiv(table[i][c], F(2))]]

\* A DataFrame of yf.download: its price fields, each a table.
Payload(fields, table) ==
    [f \in fields |-> IF f = "Adj Close" THEN Adjust(table) ELSE table]

FieldSets == SUBSET {"Adj Close", "Close"}

RECURSIVE TablesUpTo(_, _)
TablesUpTo(rows, len) ==
    IF len = 0 THEN {<<>>}
    ELSE LET shorter == TablesUpTo(rows, len - 1)
         IN  shorter \cup {Append(t, r) : t \in {u \in shorter : Len(u) = len - 1}, r \in rows}

\* Latest quotes with a day on which B has no price yet.
FetchQuoteRows == {<<Price(2), Price(1)>>, <<Price(1), NaN>>}

\* History days: flat, up, down with the benchmark flat, and an incomplete day.
FetchHistoryRows ==
    {<<Price(1), Price(1), Price(1)>>, <<Price(2), Price(1), Price(2)>>,
     <<Price(1), Price(2), NaN>>}

VARIABLES
    portfolio,              \* shares owned, per ticker
    total_portfolio_value,
    target_beta,
    latest,                 \* what yf.download(tickers) answers
    history,                \* what yf.download(tickers + ['SPY'], 2020..2023) answers
    pc,
    err,                    \* the exception that ended the call, if any
    current_prices,
    positions,
    data,
    returns,
    betas,                  \* per ticker, what calculate_beta returned
    current_weights,
    current_beta,
    normalized_weights,
    results                 \* the returned table's New Shares column

vars == <<portfolio, total_portfolio_value, target_beta, latest, history, pc, err,
          current_prices, positions, data, returns, betas, current_weights,
          current_beta, normalized_weights, results>>

inputs == <<portfolio, total_portfolio_value, target_beta, latest, history>>

Locals ==
    /\ pc = "fetch_current"
    /\ err = ErrNone
    /\ current_prices = NoFrame
    /\ positions = NoFrame
    /\ data = NoFrame
    /\ returns = NoFrame
    /\ betas = NoFrame
    /\ current_weights = NoFrame
    /\ current_beta = NoValue
    /\ normalized_weights = NoFrame
    /\ results = NoFrame

\* Calls that differ in the arguments and in the betas of the history.
InitRebalance ==
    /\ portfolio \in [1..N -> 1..MaxShares]
    /\ total_portfolio_value \in TotalValues
    /\ target_beta \in TargetBetas
    /\ latest \in {Payload({"Close"}, <<r>>) : r \in QuoteRows}
    /\ history \in {Payload({"Close"}, t) : t \in RegressionTables}

\* Calls that differ in what the two downloads answer.
InitFetch ==
    /\ portfolio = [i \in 1..N |-> 1]
    /\ total_portfolio_value = 4
    /\ target_beta = 1
    /\ latest \in {Payload(fs, t) : fs \in FieldSets, t \in TablesUpTo(FetchQuoteRows, MaxQuoteRows)}
    /\ history \in {Payload(fs, t) : fs \in FieldSets, t \in TablesUpTo(FetchHistoryRows, MaxRows)}

Init == Locals /\ (InitRebalance \/ InitFetch)

Fail(e) == pc' = "failed" /\ err' = e

\* Lines 35-41.
FetchCurrentPrices ==
    /\ pc = "fetch_current"
    /\ LET got == latest_prices(latest)
       IN  IF got.err # ErrNone
           THEN Fail(got.err) /\ UNCHANGED current_prices
           ELSE pc' = "positions" /\ current_prices' = got.prices /\ UNCHANGED err
    /\ UNCHANGED <<inputs, positions, data, returns, betas, current_weights,
                   current_beta, normalized_weights, results>>

\* Lines 43-44.
ComputePositions ==
    /\ pc = "positions"
    /\ positions' = Positions(portfolio, current_prices)
    /\ pc' = "fetch_history"
    /\ UNCHANGED <<inputs, err, current_prices, data, returns, betas, current_weights,
                   current_beta, normalized_weights, results>>

\* Line 47, get_historical_data (lines 7-15).
FetchHistory ==
    /\ pc = "fetch_history"
    /\ LET got == get_historical_data(history)
       IN  IF got.err # ErrNone
           THEN Fail(got.err) /\ UNCHANGED data
           ELSE pc' = "returns" /\ data' = got.data /\ UNCHANGED err
    /\ UNCHANGED <<inputs, current_prices, positions, returns, betas, current_weights,
                   current_beta, normalized_weights, results>>

\* Lines 48-49.
CalculateReturns ==
    /\ pc = "returns"
    /\ returns' = calculate_returns(data)
    /\ pc' = "betas"
    /\ UNCHANGED <<inputs, err, current_prices, positions, data, betas, current_weights,
                   current_beta, normalized_weights, results>>

\* Lines 52-55: the first ticker whose regression raises ends the call.
CalculateBetas ==
    /\ pc = "betas"
    /\ LET spy_returns == Column(HistoryColumns, returns, Benchmark)
           fits == [i \in 1..N |->
                      calculate_beta(Column(HistoryColumns, returns, Tickers[i]), spy_returns)]
           bad == {i \in 1..N : fits[i].err # ErrNone}
       IN  IF bad # {}
           THEN Fail(fits[CHOOSE i \in bad : \A j \in bad : i <= j].err) /\ UNCHANGED betas
           ELSE pc' = "weights" /\ betas' = fits /\ UNCHANGED err
    /\ UNCHANGED <<inputs, current_prices, positions, data, returns, current_weights,
                   current_beta, normalized_weights, results>>

BetaValues == [i \in 1..N |-> betas[i].beta]

\* Lines 58-59.
CurrentPortfolioBeta ==
    /\ pc = "weights"
    /\ current_weights' = CurrentWeights(positions, total_portfolio_value)
    /\ current_beta' = Dot(BetaValues, CurrentWeights(positions, total_portfolio_value))
    /\ pc' = "adjust"
    /\ UNCHANGED <<inputs, err, current_prices, positions, data, returns, betas,
                   normalized_weights, results>>

\* Lines 62-64.
AdjustWeights ==
    /\ pc = "adjust"
    /\ normalized_weights' = NormalizedWeights(NewWeights(current_weights, target_beta, current_beta))
    /\ pc' = "results"
    /\ UNCHANGED <<inputs, err, current_prices, positions, data, returns, betas,
                   current_weights, current_beta, results>>

\* Lines 67-81.
BuildResults ==
    /\ pc = "results"
    /\ results' = NewShares(normalized_weights, total_portfolio_value, current_prices)
    /\ pc' = "done"
    /\ UNCHANGED <<inputs, err, current_prices, positions, data, returns, betas,
                   current_weights, current_beta, normalized_weights>>

Next ==
    \/ FetchCurrentPrices
    \/ ComputePositions
    \/ FetchHistory
    \/ CalculateReturns
    \/ CalculateBetas
    \/ CurrentPortfolioBeta
    \/ AdjustWeights
    \/ BuildResults

Spec == Init /\ [][Next]_vars

(***************************************************************************)
(* Properties                                                              *)
(***************************************************************************)
Returned == pc = "done"

Last(table) == table[Len(table)]

AllFinite(v) == \A i \in 1..Len(v) : IsFinite(v[i])

InUnitInterval(a) == FLeq(F(0), a) /\ FLeq(a, F(1))

PricesPresent == AllFinite(current_prices) /\ \A i \in 1..N : FLess(F(0), current_prices[i])

\* Nothing of lines 43-81 has run.
NothingAfterCurrentPrices ==
    /\ positions = NoFrame /\ data = NoFrame /\ returns = NoFrame /\ betas = NoFrame
    /\ current_weights = NoFrame /\ normalized_weights = NoFrame /\ results = NoFrame

\* Nothing of lines 48-81 has run.
NothingAfterHistory ==
    /\ returns = NoFrame /\ betas = NoFrame /\ current_weights = NoFrame
    /\ current_beta = NoValue /\ normalized_weights = NoFrame /\ results = NoFrame

\* C1: every returned 'Adjusted Weight' column sums to 1 with every weight in
\* 0..1, for positive shares and prices and any total and target_beta,
\* target_beta = 0 and a negative total included.
C1_AdjustedWeightsSumToOne ==
    (Returned /\ PricesPresent) =>
        /\ FSum(normalized_weights) = F(1)
        /\ \A i \in 1..N : InUnitInterval(normalized_weights[i])

\* C2: a current portfolio beta of exactly 0 ends the call with an error; no
\* result table is returned from the division by zero.
C2_ZeroPortfolioBetaFails == (current_beta = F(0)) => ~Returned

\* The latest quotes were read from table: its last row, or IndexError.
CurrentPricesFrom(table) ==
    IF table = <<>> THEN pc = "failed" /\ err = ErrOutOfBounds /\ NothingAfterCurrentPrices
    ELSE current_prices = Last(table)

\* The current-price fetch has run.
FetchedCurrent == pc # "fetch_current"

\* get_historical_data has run.
FetchedHistory == pc \notin {"fetch_current", "positions", "fetch_history"} /\ positions # NoFrame

\* C3: both retrievals read Adj Close when the payload has it, Close only when
\* it has no Adj Close, and with neither the call fails with the missing-column
\* error and no later step runs.
C3_PriceFieldPreference ==
    /\ FetchedCurrent =>
          IF "Adj Close" \in DOMAIN latest THEN CurrentPricesFrom(latest["Adj Close"])
          ELSE IF "Close" \in DOMAIN latest THEN CurrentPricesFrom(latest["Close"])
          ELSE pc = "failed" /\ err = ErrNoPriceColumn /\ current_prices = NoFrame
               /\ NothingAfterCurrentPrices
    /\ FetchedHistory =>
          IF "Adj Close" \in DOMAIN history THEN data = DropNa(history["Adj Close"])
          ELSE IF "Close" \in DOMAIN history THEN data = DropNa(history["Close"])
          ELSE pc = "failed" /\ err = ErrNoPriceColumn /\ data = NoFrame
               /\ NothingAfterHistory

\* C3's case: the latest quotes came from Adj Close though Close differs, and
\* the history had neither field, which ended the call after the positions.
C3_Witness ==
    /\ DOMAIN latest = {"Adj Close", "Close"}
    /\ latest["Close"] # <<>>
    /\ current_prices = Last(latest["Adj Close"])
    /\ current_prices # Last(latest["Close"])
    /\ positions # NoFrame
    /\ DOMAIN history = {}
    /\ pc = "failed"
    /\ err = ErrNoPriceColumn

\* C4: every returned 'Current Weight' column sums to 1 with every weight in
\* 0..1, whatever total_portfolio_value the caller gives.
C4_CurrentWeightsSumToOne ==
    Returned =>
        /\ FSum(current_weights) = F(1)
        /\ \A i \in 1..N : InUnitInterval(current_weights[i])

\* C4 as amended: with every price present and a non-zero total, each current
\* weight is shares * price / total, so the column sums to the positions' sum
\* over the total: to 1 exactly when the total equals the positions' sum.
C4_CurrentWeightsAreSharesOfTotal ==
    (Returned /\ PricesPresent /\ total_portfolio_value # 0) =>
        /\ \A i \in 1..N :
              FMul(current_weights[i], F(total_portfolio_value))
                 = FMul(F(portfolio[i]), current_prices[i])
        /\ FMul(FSum(current_weights), F(total_portfolio_value)) = FSum(positions)
        /\ (FSum(current_weights) = F(1)) <=> (FSum(positions) = F(total_portfolio_value))

\* C4's case: a returned table whose total differs from the positions' sum.
C4_Witness ==
    /\ Returned /\ PricesPresent /\ total_portfolio_value # 0
    /\ FSum(positions) # F(total_portfolio_value)
    /\ FSum(current_weights) # F(1)

SameSignBetas ==
    /\ betas # NoFrame
    /\ \/ \A i \in 1..N : FLess(F(0), betas[i].beta)
       \/ \A i \in 1..N : FLess(betas[i].beta, F(0))

NoNegativeScaledWeight ==
    \A i \in 1..N : ~FLess(NewWeights(current_weights, target_beta, current_beta)[i], F(0))

RealizedBeta == Dot(BetaValues, normalized_weights)

\* C5: when all betas share a sign and no scaled weight is negative, the beta
\* of the returned adjusted weights equals target_beta exactly (stated here
\* for returned weights that are numbers).
C5_RealizedBetaEqualsTarget ==
    (Returned /\ SameSignBetas /\ NoNegativeScaledWeight /\ AllFinite(normalized_weights)) =>
        RealizedBeta = F(target_beta)

\* C5 as amended: under the same conditions (every price present, a non-zero
\* total) the realized beta is the current beta over the sum of the current
\* weights for every non-zero target_beta, and equals target_beta only when
\* target_beta is that quotient; for target_beta = 0 the weights are NaN.
C5_RealizedBetaIsWeightedAverage ==
    (Returned /\ SameSignBetas /\ NoNegativeScaledWeight /\ PricesPresent
       /\ total_portfolio_value # 0) =>
        IF target_beta # 0
        THEN /\ FMul(RealizedBeta, FSum(current_weights)) = current_beta
             /\ (RealizedBeta = F(target_beta))
                  <=> (FMul(F(target_beta), FSum(current_weights)) = current_beta)
        ELSE \A i \in 1..N : IsNaN(normalized_weights[i])

\* C5's case: same-sign betas, no negative scaled weight, and a realized beta
\* that is not the target.
C5_Witness ==
    /\ Returned /\ SameSignBetas /\ NoNegativeScaledWeight /\ PricesPresent
    /\ total_portfolio_value # 0
    /\ target_beta # 0
    /\ IsFinite(RealizedBeta)
    /\ RealizedBeta # F(target_beta)

\* The table the latest quotes are selected from, when there is one.
LatestTable ==
    IF "Adj Close" \in DOMAIN latest THEN latest["Adj Close"]
    ELSE IF "Close" \in DOMAIN latest THEN latest["Close"]
    ELSE <<>>

\* C6: the current prices are the most recent row in which every ticker has a
\* price, so no position, weight or share count comes from a missing price.
C6_LatestCompleteRow ==
    (FetchedCurrent /\ current_prices # NoFrame) =>
        /\ DropNa(LatestTable) # <<>>
        /\ current_prices = Last(DropNa(LatestTable))
        /\ positions # NoFrame => \A i \in 1..N : ~IsNaN(positions[i])
        /\ results # NoFrame => \A i \in 1..N : ~IsNaN(results[i])

\* C7: calculate_returns fails on a price table of fewer than 2 rows; it never
\* returns an empty return series for one.
C7_ShortTableFails == (pc = "betas") => (Len(data) >= 2 /\ returns # <<>>)

\* C8: calculate_beta fails when the benchmark returns have zero variance or
\* when there are fewer than 2 paired observations; no (beta, r_squared) pair
\* reaches the rebalancer then.
C8_DegenerateRegressionFails ==
    (betas # NoFrame) =>
        /\ Len(returns) >= 2
        /\ ~AllIdentical(Column(HistoryColumns, returns, Benchmark))

\* C9: every returned 'New Shares' is a non-negative whole number, the nearest
\* to adjusted_weight * total / price, an exact half going to the even one.
C9_NewSharesNonNegativeWhole ==
    Returned =>
        \A i \in 1..N :
           LET v == FDiv(FMul(normalized_weights[i], F(total_portfolio_value)), current_prices[i])
               gap == FSub(results[i], v)
           IN  /\ IsFinite(results[i]) /\ results[i].d = 1 /\ results[i].n >= 0
               /\ IsFinite(v)
               /\ FLeq(Q(-1, 2), gap) /\ FLeq(gap, Q(1, 2))
               /\ (gap = Q(1, 2) \/ gap = Q(-1, 2)) => results[i].n % 2 = 0

\* The current portfolio beta is a number other than 0.
NonZeroCurrentBeta == IsFinite(current_beta) /\ current_beta # F(0)

\* C10: the result does not depend on a non-zero target_beta: with a current
\* beta that is a non-zero number, every non-zero target_beta gives this call's
\* adjusted weights and share counts, each weight being
\* current_weight / sum(current_weights).
C10_TargetBetaCancels ==
    (Returned /\ target_beta # 0 /\ NonZeroCurrentBeta) =>
        /\ \A t2 \in TargetBetas \ {0} :
              /\ AdjustedFor(current_weights, BetaValues, t2) = normalized_weights
              /\ NewShares(AdjustedFor(current_weights, BetaValues, t2),
                           total_portfolio_value, current_prices) = results
        /\ \A i \in 1..N :
              normalized_weights[i] = FDiv(current_weights[i], FSum(current_weights))

\* C10's case: a returned table whose scale factor is not 1, with finite
\* adjusted weights.
C10_Witness ==
    /\ Returned /\ target_beta = 2 /\ NonZeroCurrentBeta
    /\ AllFinite(normalized_weights)
    /\ NewWeights(current_weights, target_beta, current_beta) # current_weights
    /\ AllFinite(results)
=============================================================================
